---- MODULE Spec2Model ----
(***************************************************************************)
(* p_band_scan: the parallel band scan of SETILab.  The main thread parses *)
(* its arguments, loads the signal, removes its DC component, creates      *)
(* num_threads workers, joins those that started and runs analyze_signal.  *)
(* Each worker pins itself to a processor, computes its band range and     *)
(* writes one band_power entry per band of the range.                      *)
(*                                                                         *)
(* Numbers.  The C code computes in double.  The model keeps every value   *)
(* exact:                                                                  *)
(*   - Fc, bandwidth and avg_of's result are rationals [num, den];         *)
(*   - a frequency is a pair <<n, e>> that stands for                      *)
(*       n / bandwidth.den  Hz  +  e * 0.0001 Hz,                          *)
(*     ordered lexicographically: two different multiples of 1/den Hz are  *)
(*     much further apart than the 0.0001 Hz guard for the den used here;  *)
(*   - the band powers are small integers, on which double arithmetic is   *)
(*     exact;                                                              *)
(*   - remove_dc rounds as the machine does, to the nearest value (ties to *)
(*     even) of a binary floating point whose significand is cut from 53   *)
(*     to SignificandBits bits; a sample is an integer count of the        *)
(*     smallest magnitude kept.                                            *)
(***************************************************************************)
EXTENDS Integers, Sequences, FiniteSets, TLC

\* ------------------------------------------------------------- bounds
MaxBands == 3
MaxThreads == 3
MaxAnalyzeBands == 5
MaxSamples == 3
SignificandBits == 3

\* ------------------------------------------------- program constants
THRESHOLD == 2
ALIENS_LOW == 50000
ALIENS_HIGH == 150000
ARGC_EXPECTED == 8

\* ------------------------------------------------------ input domains
ArgcVals == {7, 8}
SigTypeVals == {"T", "X"}
FsVals == {0, 300000}
AnalyzeFsVals == {300000, 600000, 1200000}
FilterOrderVals == {-2, 0, 1, 2}
NumBandsVals == 0..MaxBands
NumThreadsVals == 0..MaxThreads
NumProcVals == {-1, 0, 1}
SignalVals == {<<5, 5>>, <<1, 3>>}
DcSampleVals == {0, 1, 2, 3, 5, 16}
PowerVals == {0, 1}
GarbageVals == PowerVals \cup {-1}
AnalyzePowerVals == {0, 1, 2}

VARIABLES
  proc,          \* the process: "running", "exiting" (inside exit()), "terminated"
  exit_status,   \* the exit status, meaningful once proc # "running"
  pc,            \* the main thread's position in main()
  sig_type, Fs, filter_order, num_bands,   \* lines 171-175
  sig,           \* the signal [null, num_samples, data, Fs]; null: the NULL pointer
  Fc, bandwidth, \* lines 221-222
  band_power,    \* the Band Power Table, indexed 0..num_bands-1 once allocated
  kernel_power,  \* what the filter kernel computes for each band of this run
  num_threads, num_proc, tid, num_started,
  i,             \* the loop index of main's create and join loops
  wpc,           \* each worker's position in worker()
  start_i, end_i, band,   \* each worker's locals
  writers,       \* history: the workers that wrote each band_power entry, in order
  wow, lb, ub,   \* analyze_signal's result
  report,        \* the per-band lines analyze_signal printed
  log            \* history: the calls main has made, in order

vars == <<proc, exit_status, pc, sig_type, Fs, filter_order, num_bands, sig, Fc,
          bandwidth, band_power, kernel_power, num_threads, num_proc, tid,
          num_started, i, wpc, start_i, end_i, band, writers, wow, lb, ub, report,
          log>>

mainInputs == <<sig_type, Fs, filter_order, num_bands>>
signalVars == <<sig, Fc, bandwidth, kernel_power>>
threadVars == <<num_threads, num_proc, tid, num_started, i>>
workerVars == <<wpc, start_i, end_i, band>>
tableVars == <<band_power, writers>>
resultVars == <<wow, lb, ub, report>>

NULL == [null |-> TRUE, num_samples |-> 0, data |-> <<>>, Fs |-> 0]
\* what a loader returns for the samples d: data[0..num_samples-1]
Loaded(d) == [null |-> FALSE, num_samples |-> Len(d),
              data |-> [k \in 0..(Len(d) - 1) |-> d[k + 1]], Fs |-> 0]
\* one call of main, as the log keeps it
Ev(op, arg, rc) == [op |-> op, arg |-> arg, rc |-> rc]
\* a pthread_t slot: not yet written, a live thread's handle, or the sentinel
UNSET == "unset"
HANDLE == "handle"
DEADBEEF == "0xdeadbeef"
Workers == 0..(MaxThreads - 1)
Bands == 0..(num_bands - 1)

\* ------------------------------------------------------------ numbers
Rat(n, d) == [num |-> n, den |-> d]
\* h Hz as a frequency
Hz(h) == <<h * bandwidth.den, 0>>
FGeq(a, b) == a[1] > b[1] \/ (a[1] = b[1] /\ a[2] >= b[2])
FLeq(a, b) == FGeq(b, a)
FLt(a, b) == ~FGeq(a, b)

\* exit(code) and a return from main leave the low 8 bits as the status
ExitStatus(code) == code % 256
\* killed by SIGABRT (a failed assert) or SIGFPE: the shell's 128 + signal
AbortStatus == 134
FpeStatus == 136

\* the loop of avg_of: data[0] + ... + data[num-1]
RECURSIVE SumTo(_, _)
SumTo(data, num) == IF num = 0 THEN 0 ELSE SumTo(data, num - 1) + data[num - 1]

\* avg_of: s / num, kept as a rational
avg_of(data, num) == Rat(SumTo(data, num), num)

\* ---- double arithmetic, the significand cut to SignificandBits bits
RECURSIVE Pow2(_)
Pow2(n) == IF n = 0 THEN 1 ELSE 2 * Pow2(n - 1)

\* a / b to the nearest integer, ties to the even one (a >= 0, b > 0)
RoundHalfEven(a, b) ==
  LET q == a \div b
      r == a % b
  IN IF 2 * r < b THEN q
     ELSE IF 2 * r > b THEN q + 1
     ELSE IF q % 2 = 0 THEN q ELSE q + 1

\* the weight of the last significand bit of a / d: the least power of two sc
\* with a / d < 2^SignificandBits * sc
RECURSIVE Ulp(_, _, _)
Ulp(a, d, sc) == IF a < d * Pow2(SignificandBits) * sc THEN sc ELSE Ulp(a, d, 2 * sc)

\* n / d (d > 0) rounded to a representable value
Rnd(n, d) ==
  LET a == IF n < 0 THEN -n ELSE n
      sc == Ulp(a, d, 1)
      m == RoundHalfEven(a, d * sc)
  IN IF n < 0 THEN -(m * sc) ELSE m * sc

\* the loop of avg_of in this arithmetic: s += data[i], rounded at every step
RECURSIVE SumToRounded(_, _)
SumToRounded(data, num) ==
  IF num = 0 THEN 0 ELSE Rnd(SumToRounded(data, num - 1) + data[num - 1], 1)

\* avg_of in this arithmetic: s / num, rounded
avg_of_rounded(data, num) == Rnd(SumToRounded(data, num), num)

\* mutant: the loop of line 72 starts at 1
remove_dcSkipFirst(s) ==
  LET num == s.num_samples
      dc == avg_of_rounded(s.data, num)
  IN [s EXCEPT !.data = [k \in 0..(num - 1) |->
                           IF k = 0 THEN s.data[k] ELSE Rnd(s.data[k] - dc, 1)]]

\* remove_dc: every sample minus the computed mean
remove_dc(s) ==
  LET num == s.num_samples
      dc == avg_of_rounded(s.data, num)
  IN [s EXCEPT !.data = [k \in 0..(num - 1) |-> Rnd(s.data[k] - dc, 1)]]

\* ------------------------------------------------------------- Init
Init ==
  /\ proc = "running"
  /\ exit_status = 0
  /\ pc = "argc"
  /\ sig_type = "?"
  /\ Fs = 0
  /\ filter_order = 0
  /\ num_bands = 0
  /\ sig = NULL
  /\ Fc = Rat(0, 1)
  /\ bandwidth = Rat(0, 1)
  /\ band_power = <<>>
  /\ kernel_power = <<>>
  /\ num_threads = 0
  /\ num_proc = 0
  /\ tid = <<>>
  /\ num_started = 0
  /\ i = 0
  /\ wpc = [w \in Workers |-> "none"]
  /\ start_i = [w \in Workers |-> 0]
  /\ end_i = [w \in Workers |-> 0]
  /\ band = [w \in Workers |-> 0]
  /\ writers = <<>>
  /\ wow = 0
  /\ lb = <<0, 0>>
  /\ ub = <<0, 0>>
  /\ report = <<>>
  /\ log = <<>>

Alive == proc \in {"running", "exiting"}

\* ------------------------------------------------------- main: set-up
\* main returns -1 before any thread exists
MainReturnError ==
  /\ pc' = "done"
  /\ proc' = "exiting"
  /\ exit_status' = ExitStatus(-1)

MainCheckArgc ==
  /\ Alive /\ pc = "argc"
  /\ \E argc \in ArgcVals :
       IF argc # ARGC_EXPECTED
       THEN MainReturnError
       ELSE pc' = "parse" /\ UNCHANGED <<proc, exit_status>>
  /\ UNCHANGED <<mainInputs, signalVars, threadVars, workerVars, tableVars, resultVars>>
  /\ UNCHANGED log

\* the three asserts of lines 177-179
ConfigAsserts(fs, order, nb) ==
  /\ fs > 0
  /\ order > 0 /\ order % 2 = 0
  /\ nb > 0

MainParse ==
  /\ Alive /\ pc = "parse"
  /\ \E st \in SigTypeVals, fs \in FsVals, order \in FilterOrderVals, nb \in NumBandsVals :
       /\ sig_type' = st
       /\ Fs' = fs
       /\ filter_order' = order
       /\ num_bands' = nb
       /\ IF ConfigAsserts(fs, order, nb)
          THEN pc' = "load" /\ UNCHANGED <<proc, exit_status>>
          ELSE pc' = "done" /\ proc' = "terminated" /\ exit_status' = AbortStatus
  /\ UNCHANGED <<signalVars, threadVars, workerVars, tableVars, resultVars>>
  /\ UNCHANGED log

\* mutant: the test of line 212 is missing
MainLoadUnchecked ==
  /\ Alive /\ pc = "load"
  /\ IF sig_type \notin {"T", "B", "M"}
     THEN MainReturnError /\ UNCHANGED <<sig, log>>
     ELSE \E loaded \in {NULL} \cup {Loaded(d) : d \in SignalVals} :
            /\ sig' = loaded
            /\ log' = Append(log, Ev("load", loaded.data, IF loaded.null THEN -1 ELSE 0))
            /\ pc' = "constants" /\ UNCHANGED <<proc, exit_status>>
  /\ UNCHANGED <<mainInputs, Fc, bandwidth, kernel_power, threadVars, workerVars,
                 tableVars, resultVars>>

\* lines 194-215
MainLoad ==
  /\ Alive /\ pc = "load"
  /\ IF sig_type \notin {"T", "B", "M"}
     THEN MainReturnError /\ UNCHANGED <<sig, log>>
     ELSE \E loaded \in {NULL} \cup {Loaded(d) : d \in SignalVals} :
            /\ sig' = loaded
            /\ log' = Append(log, Ev("load", loaded.data, IF loaded.null THEN -1 ELSE 0))
            /\ IF loaded.null
               THEN MainReturnError
               ELSE pc' = "constants" /\ UNCHANGED <<proc, exit_status>>
  /\ UNCHANGED <<mainInputs, Fc, bandwidth, kernel_power, threadVars, workerVars,
                 tableVars, resultVars>>

MainAssignConstants ==
  /\ Alive /\ pc = "constants"
  /\ sig' = [sig EXCEPT !.Fs = Fs]
  /\ Fc' = Rat(Fs, 2)
  /\ bandwidth' = Rat(Fs, 2 * num_bands)
  /\ pc' = "remove_dc"
  /\ UNCHANGED <<proc, exit_status, mainInputs, kernel_power, threadVars, workerVars,
                 tableVars, resultVars>>
  /\ log' = Append(log, Ev("constants", 0, 0))

\* The filter kernel (filter.h) is a deterministic function of the signal, Fs,
\* the filter order and the band: one table per run.  A signal that is all
\* zeros convolves to zero power in every band.
KernelTables(s) ==
  IF \A k \in 0..(s.num_samples - 1) : s.data[k] = 0
  THEN {[b \in Bands |-> 0]}
  ELSE [Bands -> PowerVals]

\* mutant: line 224 left out
MainRemoveDcSkipped ==
  /\ Alive /\ pc = "remove_dc"
  /\ kernel_power' \in KernelTables(sig)
  /\ pc' = "alloc"
  /\ UNCHANGED <<proc, exit_status, mainInputs, sig, Fc, bandwidth, threadVars,
                 workerVars, tableVars, resultVars>>
  /\ UNCHANGED log

MainRemoveDc ==
  /\ Alive /\ pc = "remove_dc"
  /\ sig' = remove_dc(sig)
  /\ kernel_power' \in KernelTables(sig')
  /\ pc' = "alloc"
  /\ UNCHANGED <<proc, exit_status, mainInputs, Fc, bandwidth, threadVars, workerVars,
                 tableVars, resultVars>>
  /\ log' = Append(log, Ev("remove_dc", 0, 0))

\* malloc: the entries hold no value until a worker writes them
MainAllocBandPower ==
  /\ Alive /\ pc = "alloc"
  /\ band_power' = [b \in Bands |-> 0]
  /\ writers' = [b \in Bands |-> <<>>]
  /\ pc' = "threads"
  /\ UNCHANGED <<proc, exit_status, mainInputs, signalVars, threadVars, workerVars,
                 resultVars>>
  /\ log' = Append(log, Ev("malloc_band_power", num_bands, 0))

MainParseThreads ==
  /\ Alive /\ pc = "threads"
  /\ \E nt \in NumThreadsVals, np \in NumProcVals :
       /\ num_threads' = nt
       /\ num_proc' = np
       /\ tid' = [w \in 0..(nt - 1) |-> UNSET]
       /\ log' = Append(log, Ev("malloc_tid", nt, 0))
  /\ num_started' = 0
  /\ i' = 0
  /\ pc' = "create"
  /\ UNCHANGED <<proc, exit_status, mainInputs, signalVars, workerVars, tableVars,
                 resultVars>>

\* ------------------------------------------------- main: create, join
\* mutant: a failed pthread_create is tried again
MainCreateRetry ==
  /\ Alive /\ pc = "create" /\ i < num_threads
  /\ \E returncode \in {0, 1} :
       /\ log' = Append(log, Ev("pthread_create", i, returncode))
       /\ IF returncode = 0
          THEN /\ tid' = [tid EXCEPT ![i] = HANDLE]
               /\ wpc' = [wpc EXCEPT ![i] = "affinity"]
               /\ num_started' = num_started + 1
               /\ i' = i + 1
          ELSE /\ tid' = [tid EXCEPT ![i] = DEADBEEF]
               /\ UNCHANGED <<wpc, num_started, i>>
  /\ UNCHANGED <<proc, exit_status, pc, mainInputs, signalVars, num_threads, num_proc,
                 start_i, end_i, band, tableVars, resultVars>>

\* one iteration of the loop of lines 234-248; pthread_create may fail
MainCreate ==
  /\ Alive /\ pc = "create" /\ i < num_threads
  /\ \E returncode \in {0, 1} :
       /\ log' = Append(log, Ev("pthread_create", i, returncode))
       /\ IF returncode = 0
          THEN /\ tid' = [tid EXCEPT ![i] = HANDLE]
               /\ wpc' = [wpc EXCEPT ![i] = "affinity"]
               /\ num_started' = num_started + 1
          ELSE /\ tid' = [tid EXCEPT ![i] = DEADBEEF]
               /\ UNCHANGED <<wpc, num_started>>
  /\ i' = i + 1
  /\ UNCHANGED <<proc, exit_status, pc, mainInputs, signalVars, num_threads, num_proc,
                 start_i, end_i, band, tableVars, resultVars>>

MainCreateDone ==
  /\ Alive /\ pc = "create" /\ ~(i < num_threads)
  /\ pc' = "join"
  /\ i' = 0
  /\ UNCHANGED <<proc, exit_status, mainInputs, signalVars, num_threads, num_proc, tid,
                 num_started, workerVars, tableVars, resultVars>>
  /\ UNCHANGED log

\* mutant: the test of line 255 inverted
JoinAttemptedInverted(w) == tid[w] = DEADBEEF

\* line 255: the join is attempted for every slot but the sentinel's
JoinAttempted(w) == tid[w] # DEADBEEF

\* mutant: a join that never returns
pthread_join_returnsNever(w) == FALSE

\* mutant: a join that does not wait
pthread_join_returnsAtOnce(w) == TRUE

\* line 257: pthread_join returns once the thread has terminated (on the
\* handle of a joinable thread that pthread_create returned it does not fail)
pthread_join_returns(w) == wpc[w] = "terminated"

\* one iteration of the loop of lines 254-267
MainJoin ==
  /\ Alive /\ pc = "join" /\ i < num_threads
  /\ JoinAttempted(i) => pthread_join_returns(i)
  /\ i' = i + 1
  /\ UNCHANGED <<proc, exit_status, pc, mainInputs, signalVars, num_threads, num_proc,
                 tid, num_started, workerVars, tableVars, resultVars>>
  /\ log' = IF JoinAttempted(i) THEN Append(log, Ev("pthread_join", i, 0)) ELSE log

MainJoinDone ==
  /\ Alive /\ pc = "join" /\ ~(i < num_threads)
  /\ pc' = "analyze"
  /\ UNCHANGED <<proc, exit_status, mainInputs, signalVars, threadVars, workerVars,
                 tableVars, resultVars>>
  /\ UNCHANGED log

\* ------------------------------------------------------------ worker
\* mutant: the else branch of line 98 forgets the extra bands before it
PartitionRangeNoExtra(myid) ==
  LET bbands == num_bands \div num_threads
      ebands == num_bands % num_threads
      s0 == myid * bbands
      e0 == bbands
  IN IF myid < ebands
     THEN [start_i |-> s0 + myid, end_i |-> e0 + (s0 + myid) + 1]
     ELSE [start_i |-> s0, end_i |-> e0 + s0]

\* mutant: line 95 forgets the extra band of the first ebands workers
PartitionRangeShort(myid) ==
  LET bbands == num_bands \div num_threads
      ebands == num_bands % num_threads
      s0 == myid * bbands
      e0 == bbands
  IN IF myid < ebands
     THEN [start_i |-> s0 + myid, end_i |-> e0 + (s0 + myid)]
     ELSE [start_i |-> s0 + ebands, end_i |-> e0 + (s0 + ebands)]

\* mutant: the extra bands go to the last ebands workers
PartitionRangeExtraLast(myid) ==
  LET bbands == num_bands \div num_threads
      ebands == num_bands % num_threads
      first == num_threads - ebands
      s0 == myid * bbands
      e0 == bbands
  IN IF myid >= first
     THEN [start_i |-> s0 + (myid - first), end_i |-> e0 + (s0 + (myid - first)) + 1]
     ELSE [start_i |-> s0, end_i |-> e0 + s0]

\* mutant: <= for < in line 93
PartitionRangeOffByOne(myid) ==
  LET bbands == num_bands \div num_threads
      ebands == num_bands % num_threads
      s0 == myid * bbands
      e0 == bbands
  IN IF myid <= ebands
     THEN [start_i |-> s0 + myid, end_i |-> e0 + (s0 + myid) + 1]
     ELSE [start_i |-> s0 + ebands, end_i |-> e0 + (s0 + ebands)]

\* lines 89-100: the band range of worker myid
PartitionRange(myid) ==
  LET bbands == num_bands \div num_threads
      ebands == num_bands % num_threads
      s0 == myid * bbands
      e0 == bbands
  IN IF myid < ebands
     THEN [start_i |-> s0 + myid, end_i |-> e0 + (s0 + myid) + 1]
     ELSE [start_i |-> s0 + ebands, end_i |-> e0 + (s0 + ebands)]

\* lines 78-100, once the processor set is built: sched_setaffinity, exit(-1)
\* when it fails, the band range otherwise
WorkerPin(w) ==
  \E rc \in {0, -1} :
    IF rc < 0
    THEN /\ wpc' = [wpc EXCEPT ![w] = "exit_called"]
         /\ proc' = "exiting"
         /\ exit_status' = ExitStatus(-1)
         /\ UNCHANGED <<start_i, end_i, band>>
    ELSE /\ wpc' = [wpc EXCEPT ![w] = "loop"]
         /\ start_i' = [start_i EXCEPT ![w] = PartitionRange(w).start_i]
         /\ end_i' = [end_i EXCEPT ![w] = PartitionRange(w).end_i]
         /\ band' = [band EXCEPT ![w] = PartitionRange(w).start_i]
         /\ UNCHANGED <<proc, exit_status>>

\* line 83: myid % num_proc.  With num_proc = 0 the division is undefined: the
\* build either traps (SIGFPE kills the process) or carries on with some
\* processor number.
WorkerSetAffinity(w) ==
  /\ Alive /\ wpc[w] = "affinity"
  /\ \/ WorkerPin(w)
     \/ /\ num_proc = 0
        /\ proc' = "terminated"
        /\ exit_status' = FpeStatus
        /\ UNCHANGED workerVars
  /\ UNCHANGED <<pc, mainInputs, signalVars, threadVars, tableVars, resultVars>>
  /\ UNCHANGED log

\* mutant: the result stored at the index within the worker's own range
WorkerLoopBodyLocalIndex(w) ==
  [index |-> band[w] - start_i[w], power |-> kernel_power[band[w]]]

\* lines 105-115: the filter for band[w], and its power into band_power[band[w]]
WorkerLoopBody(w) == [index |-> band[w], power |-> kernel_power[band[w]]]

\* one iteration of the loop of lines 104-116
WorkerBand(w) ==
  /\ Alive /\ wpc[w] = "loop" /\ band[w] < end_i[w]
  /\ band_power' = [band_power EXCEPT ![WorkerLoopBody(w).index] = WorkerLoopBody(w).power]
  /\ writers' = [writers EXCEPT ![WorkerLoopBody(w).index] = Append(@, w)]
  /\ band' = [band EXCEPT ![w] = band[w] + 1]
  /\ UNCHANGED <<proc, exit_status, pc, mainInputs, signalVars, threadVars, wpc,
                 start_i, end_i, resultVars>>
  /\ UNCHANGED log

\* line 118
WorkerExit(w) ==
  /\ Alive /\ wpc[w] = "loop" /\ ~(band[w] < end_i[w])
  /\ wpc' = [wpc EXCEPT ![w] = "terminated"]
  /\ UNCHANGED <<proc, exit_status, pc, mainInputs, signalVars, threadVars, start_i,
                 end_i, band, tableVars, resultVars>>
  /\ UNCHANGED log

\* ---------------------------------------------------- analyze_signal
\* lines 130-131
BandLow(b) == <<b * bandwidth.num, 1>>
BandHigh(b) == <<(b + 1) * bandwidth.num, -1>>

\* lines 140-141
BandOfInterest(band_low, band_high) ==
  \/ FGeq(band_low, Hz(ALIENS_LOW)) /\ FLeq(band_low, Hz(ALIENS_HIGH))
  \/ FGeq(band_high, Hz(ALIENS_LOW)) /\ FLeq(band_high, Hz(ALIENS_HIGH))

\* mutant: >= for >
ExceedsThresholdOrEqual(power, avg) == power * avg.den >= THRESHOLD * avg.num

\* line 144: power > THRESHOLD * avg_band_power, the average being num/den, den > 0
ExceedsThreshold(power, avg) == power * avg.den > THRESHOLD * avg.num

\* mutant: lb assigned at every flagged band
UpdateLbAlways(cur, band_low) == band_low

\* lines 147-149
UpdateLb(cur, band_low) == IF FLt(cur, Hz(0)) THEN band_low ELSE cur

\* line 150
UpdateUb(cur, band_high) == band_high

\* the loop of lines 129-159 from band b on; st is [wow, lb, ub, report]
RECURSIVE AnalyzeLoop(_, _, _, _)
AnalyzeLoop(b, st, table, avg) ==
  IF ~(b < num_bands) THEN st
  ELSE LET band_low == BandLow(b)
           band_high == BandHigh(b)
           flag == /\ BandOfInterest(band_low, band_high)
                   /\ ExceedsThreshold(table[b], avg)
           line == [band |-> b, low |-> band_low, high |-> band_high,
                    power |-> table[b], wow |-> flag]
           next == [wow |-> IF flag THEN 1 ELSE st.wow,
                    lb |-> IF flag THEN UpdateLb(st.lb, band_low) ELSE st.lb,
                    ub |-> IF flag THEN UpdateUb(st.ub, band_high) ELSE st.ub,
                    report |-> Append(st.report, line)]
       IN AnalyzeLoop(b + 1, next, table, avg)

\* lines 121-162 over the table as read
analyze_signal(table) ==
  AnalyzeLoop(0, [wow |-> 0, lb |-> Hz(-1), ub |-> Hz(-1), report |-> <<>>],
              table, avg_of(table, num_bands))

\* line 271.  An entry no worker wrote is uninitialised memory: the read
\* yields any value.
MainAnalyze ==
  /\ Alive /\ pc = "analyze"
  /\ \E garbage \in [{b \in Bands : writers[b] = <<>>} -> GarbageVals] :
       LET table == [b \in Bands |->
                       IF writers[b] = <<>> THEN garbage[b] ELSE band_power[b]]
           r == analyze_signal(table)
       IN /\ wow' = r.wow
          /\ lb' = r.lb
          /\ ub' = r.ub
          /\ report' = r.report
          /\ log' = Append(log, Ev("analyze_signal", 0, r.wow))
  /\ pc' = "free"
  /\ UNCHANGED <<proc, exit_status, mainInputs, signalVars, threadVars, workerVars,
                 tableVars>>

\* lines 277-279: free_signal, return 0
MainFinish ==
  /\ Alive /\ pc = "free"
  /\ sig' = NULL
  /\ pc' = "done"
  /\ proc' = "exiting"
  /\ exit_status' = ExitStatus(0)
  /\ UNCHANGED <<mainInputs, Fc, bandwidth, kernel_power, threadVars, workerVars,
                 tableVars, resultVars>>
  /\ log' = Append(log, Ev("free_signal", 0, 0))

\* exit() completes: every thread is gone
ProcessTerminate ==
  /\ proc = "exiting"
  /\ proc' = "terminated"
  /\ UNCHANGED <<exit_status, pc, mainInputs, signalVars, threadVars, workerVars,
                 tableVars, resultVars>>
  /\ UNCHANGED log

\* ------------------------------------------------------ specifications
Next ==
  \/ MainCheckArgc
  \/ MainParse
  \/ MainLoad
  \/ MainAssignConstants
  \/ MainRemoveDc
  \/ MainAllocBandPower
  \/ MainParseThreads
  \/ MainCreate
  \/ MainCreateDone
  \/ MainJoin
  \/ MainJoinDone
  \/ MainAnalyze
  \/ MainFinish
  \/ ProcessTerminate
  \/ \E w \in Workers : WorkerSetAffinity(w)
  \/ \E w \in Workers : WorkerBand(w)
  \/ \E w \in Workers : WorkerExit(w)

Spec == Init /\ [][Next]_vars

\* the threads of the process from line 228 on: the runs are entered where
\* main reads num_threads, the table allocated, over every valid num_bands
InitThreads ==
  /\ proc = "running"
  /\ exit_status = 0
  /\ pc = "threads"
  /\ sig_type = "T"
  /\ Fs = 300000
  /\ filter_order = 2
  /\ num_bands \in 1..MaxBands
  /\ sig = [remove_dc(Loaded(<<1, 3>>)) EXCEPT !.Fs = Fs]
  /\ Fc = Rat(Fs, 2)
  /\ bandwidth = Rat(Fs, 2 * num_bands)
  /\ kernel_power = [b \in 0..(num_bands - 1) |-> 1]
  /\ band_power = [b \in 0..(num_bands - 1) |-> 0]
  /\ writers = [b \in 0..(num_bands - 1) |-> <<>>]
  /\ num_threads = 0
  /\ num_proc = 0
  /\ tid = <<>>
  /\ num_started = 0
  /\ i = 0
  /\ wpc = [w \in Workers |-> "none"]
  /\ start_i = [w \in Workers |-> 0]
  /\ end_i = [w \in Workers |-> 0]
  /\ band = [w \in Workers |-> 0]
  /\ wow = 0
  /\ lb = <<0, 0>>
  /\ ub = <<0, 0>>
  /\ report = <<>>
  /\ log = <<Ev("load", Loaded(<<1, 3>>).data, 0), Ev("constants", 0, 0),
             Ev("remove_dc", 0, 0), Ev("malloc_band_power", num_bands, 0)>>

MainThread ==
  \/ MainParseThreads
  \/ MainCreate
  \/ MainCreateDone
  \/ MainJoin
  \/ MainJoinDone
  \/ MainAnalyze
  \/ MainFinish

WorkerThread(w) == WorkerSetAffinity(w) \/ WorkerBand(w) \/ WorkerExit(w)

NextThreads ==
  \/ MainThread
  \/ \E w \in Workers : WorkerThread(w)
  \/ ProcessTerminate

SpecThreads == InitThreads /\ [][NextThreads]_vars

\* fair scheduling: a thread that can run is eventually run, and exit()
\* completes
FairSpec ==
  /\ SpecThreads
  /\ WF_vars(MainThread)
  /\ \A w \in Workers : WF_vars(WorkerThread(w))
  /\ WF_vars(ProcessTerminate)

\* remove_dc as a function of the samples: the runs are entered where main
\* calls it, over every sample sequence of up to MaxSamples values
DcSignals == UNION {[1..n -> DcSampleVals] : n \in 1..MaxSamples}

InitRemoveDc ==
  /\ proc = "running"
  /\ exit_status = 0
  /\ pc = "remove_dc"
  /\ sig_type = "T"
  /\ Fs = 300000
  /\ filter_order = 2
  /\ num_bands = 1
  /\ sig \in {[Loaded(d) EXCEPT !.Fs = Fs] : d \in DcSignals}
  /\ Fc = Rat(Fs, 2)
  /\ bandwidth = Rat(Fs, 2 * num_bands)
  /\ band_power = <<>>
  /\ kernel_power = <<>>
  /\ num_threads = 0
  /\ num_proc = 0
  /\ tid = <<>>
  /\ num_started = 0
  /\ i = 0
  /\ wpc = [w \in Workers |-> "none"]
  /\ start_i = [w \in Workers |-> 0]
  /\ end_i = [w \in Workers |-> 0]
  /\ band = [w \in Workers |-> 0]
  /\ writers = <<>>
  /\ wow = 0
  /\ lb = <<0, 0>>
  /\ ub = <<0, 0>>
  /\ report = <<>>
  /\ log = <<Ev("load", sig.data, 0), Ev("constants", 0, 0)>>

NextRemoveDc == MainRemoveDc

SpecRemoveDc == InitRemoveDc /\ [][NextRemoveDc]_vars

\* analyze_signal as a function of the table: the runs are entered where main
\* calls it, one worker having written every band, over wider tables
InitAnalyze ==
  /\ proc = "running"
  /\ exit_status = 0
  /\ pc = "analyze"
  /\ sig_type = "T"
  /\ Fs \in AnalyzeFsVals
  /\ filter_order = 2
  /\ num_bands \in 1..MaxAnalyzeBands
  /\ sig = [remove_dc(Loaded(<<1, 3>>)) EXCEPT !.Fs = Fs]
  /\ Fc = Rat(Fs, 2)
  /\ bandwidth = Rat(Fs, 2 * num_bands)
  /\ kernel_power \in [0..(num_bands - 1) -> AnalyzePowerVals]
  /\ band_power = kernel_power
  /\ num_threads = 1
  /\ num_proc = 1
  /\ tid = [w \in {0} |-> HANDLE]
  /\ num_started = 1
  /\ i = 1
  /\ wpc = [w \in Workers |-> IF w = 0 THEN "terminated" ELSE "none"]
  /\ start_i = [w \in Workers |-> 0]
  /\ end_i = [w \in Workers |-> IF w = 0 THEN num_bands ELSE 0]
  /\ band = [w \in Workers |-> IF w = 0 THEN num_bands ELSE 0]
  /\ writers = [b \in 0..(num_bands - 1) |-> <<0>>]
  /\ wow = 0
  /\ lb = <<0, 0>>
  /\ ub = <<0, 0>>
  /\ report = <<>>
  /\ log = <<Ev("load", Loaded(<<1, 3>>).data, 0), Ev("constants", 0, 0),
             Ev("remove_dc", 0, 0), Ev("malloc_band_power", num_bands, 0),
             Ev("malloc_tid", 1, 0), Ev("pthread_create", 0, 0),
             Ev("pthread_join", 0, 0)>>

NextAnalyze == MainAnalyze \/ MainFinish \/ ProcessTerminate

SpecAnalyze == InitAnalyze /\ [][NextAnalyze]_vars

\* ------------------------------------------------------------ claims
\* analyze_signal has run (it prints one line per band, and num_bands >= 1)
Analyzed == report # <<>>
ThreadIds == 0..(num_threads - 1)
\* the workers that have computed their range
Ranged == {w \in Workers : wpc[w] \in {"loop", "terminated"}}
RangeOf(w) == start_i[w]..(end_i[w] - 1)
SizeOf(r) == r.end_i - r.start_i
Flagged == {b \in Bands : report[b + 1].wow}
TableRead == [b \in Bands |-> report[b + 1].power]
RECURSIVE TableSum(_)
TableSum(S) == IF S = {} THEN 0
               ELSE LET b == CHOOSE x \in S : TRUE IN TableRead[b] + TableSum(S \ {b})
MinOf(S) == CHOOSE x \in S : \A y \in S : x <= y
MaxOf(S) == CHOOSE x \in S : \A y \in S : x >= y

\* C1: for num_bands >= 1 and num_threads >= 1 the ranges of workers
\* 0..num_threads-1 cover every band of [0, num_bands) exactly once, none
\* leaves [0, num_bands), and two ranges differ in size by at most 1; the
\* ranges the workers hold in start_i, end_i are disjoint and inside the table.
C1_PartitionCoversOnce ==
  num_threads >= 1 =>
    /\ \A b \in Bands :
         Cardinality({w \in ThreadIds : /\ PartitionRange(w).start_i <= b
                                        /\ b < PartitionRange(w).end_i}) = 1
    /\ \A w \in ThreadIds :
         /\ 0 <= PartitionRange(w).start_i
         /\ PartitionRange(w).start_i <= PartitionRange(w).end_i
         /\ PartitionRange(w).end_i <= num_bands
    /\ \A w, v \in ThreadIds :
         SizeOf(PartitionRange(w)) - SizeOf(PartitionRange(v)) \in {-1, 0, 1}
    /\ \A w \in Ranged : RangeOf(w) \subseteq Bands
    /\ \A w, v \in Ranged : w # v => RangeOf(w) \cap RangeOf(v) = {}
    /\ Ranged = ThreadIds => UNION {RangeOf(w) : w \in Ranged} = Bands

\* two workers hold ranges of different sizes that together cover three bands
C1_Witness ==
  /\ num_bands = 3 /\ num_threads = 2 /\ Ranged = {0, 1}
  /\ start_i[0] = 0 /\ end_i[0] = 2 /\ start_i[1] = 2 /\ end_i[1] = 3

\* C2: no band_power entry is ever written by two different workers, and
\* every write of a worker falls inside its own range [start_i, end_i).
C2_NoSharedIndex ==
  \A b \in DOMAIN writers :
    \A k \in 1..Len(writers[b]) :
      /\ b \in RangeOf(writers[b][k])
      /\ writers[b][k] = writers[b][1]

\* two workers are both inside their loops and each has written a band
C2_Witness ==
  \E b, c \in DOMAIN writers :
    /\ writers[b] # <<>> /\ writers[c] # <<>>
    /\ writers[b][1] # writers[c][1]
    /\ wpc[writers[b][1]] = "loop" /\ wpc[writers[c][1]] = "loop"

\* C3 (as claimed): once analyze_signal has run, every band_power entry was
\* written exactly once, whatever pthread_create returned.  Stated for the
\* valid configurations, so that it fails on a pthread_create that failed.
C3_EveryIndexWrittenOnce ==
  (Analyzed /\ num_threads >= 1 /\ num_proc >= 1) =>
    \A b \in Bands : Len(writers[b]) = 1

\* C4: when main is at analyze_signal or past it, every worker whose
\* pthread_create returned 0 has finished its loop and terminated.
C4_JoinBarrier ==
  (pc = "analyze" \/ Analyzed) =>
    \A w \in DOMAIN tid :
      tid[w] = HANDLE => wpc[w] = "terminated" /\ band[w] = end_i[w]

\* analyze_signal has run after two workers were started and one was not
C4_Witness ==
  /\ Analyzed
  /\ num_started >= 2
  /\ \E w \in DOMAIN tid : tid[w] = DEADBEEF

\* C5: with every worker started, the table analyze_signal reads is the
\* filter kernel's result for each band, whatever num_threads >= 1 is and
\* however the workers interleave.
C5_TableIndependentOfThreads ==
  (Analyzed /\ num_threads >= 1 /\ num_started = num_threads) =>
    \A b \in Bands : TableRead[b] = kernel_power[b] /\ band_power[b] = kernel_power[b]

\* three workers, all started, over three bands of different powers
C5_Witness ==
  /\ Analyzed
  /\ num_threads = 3 /\ num_started = 3 /\ num_bands = 3
  /\ \E b, c \in Bands : kernel_power[b] # kernel_power[c]

\* the band [band_low, band_high] and the window [ALIENS_LOW, ALIENS_HIGH] meet
Intersects(b) ==
  /\ FLeq(BandLow(b), Hz(ALIENS_HIGH))
  /\ FGeq(BandHigh(b), Hz(ALIENS_LOW))

\* C6 (as claimed): the flagged bands are exactly the bands that intersect
\* the window and whose power exceeds THRESHOLD times the mean.
C6_InterestIsIntersection ==
  Analyzed =>
    \A b \in Bands :
      report[b + 1].wow <=>
        (Intersects(b) /\ TableRead[b] * num_bands > THRESHOLD * TableSum(Bands))

\* C7: a band of interest is flagged if and only if its power is strictly
\* above THRESHOLD times the mean of all num_bands powers.
C7_StrictThreshold ==
  Analyzed =>
    \A b \in Bands :
      BandOfInterest(BandLow(b), BandHigh(b)) =>
        (report[b + 1].wow <=> TableRead[b] * num_bands > THRESHOLD * TableSum(Bands))

\* a band of interest with a positive power of exactly THRESHOLD times the
\* mean, not flagged
C7_Witness ==
  /\ Analyzed
  /\ \E b \in Bands :
       /\ BandOfInterest(BandLow(b), BandHigh(b))
       /\ TableRead[b] > 0
       /\ TableRead[b] * num_bands = THRESHOLD * TableSum(Bands)
       /\ ~report[b + 1].wow

\* C8: analyze_signal returns 1 exactly when some band was flagged, and then
\* lb is the low edge of the lowest flagged band and ub the high edge of the
\* highest one.
C8_Envelope ==
  Analyzed =>
    /\ wow = 1 <=> Flagged # {}
    /\ wow \in {0, 1}
    /\ Flagged # {} => /\ lb = <<MinOf(Flagged) * bandwidth.num, 1>>
                       /\ ub = <<(MaxOf(Flagged) + 1) * bandwidth.num, -1>>

\* bands 0 and 2 flagged, band 1 between them not
C8_Witness ==
  /\ Analyzed
  /\ wow = 1
  /\ 0 \in Flagged /\ 1 \notin Flagged /\ 2 \in Flagged

\* the configuration as parsed is invalid
InvalidConfig ==
  \/ pc \notin {"argc", "parse"} /\ ~ConfigAsserts(Fs, filter_order, num_bands)
  \/ pc \in {"create", "join", "analyze", "free"} /\ (num_threads < 1 \/ num_proc < 1)
  \/ Analyzed /\ (num_threads < 1 \/ num_proc < 1)

\* C9 (as claimed): with an invalid configuration no worker is created,
\* analyze_signal does not run, no report is printed and the exit status is
\* not 0.
C9_InvalidConfigIsFatal ==
  InvalidConfig =>
    /\ \A w \in Workers : wpc[w] = "none"
    /\ ~Analyzed
    /\ proc = "terminated" => exit_status # 0

\* C10: once sched_setaffinity has failed in a worker, the process is
\* exiting or gone with a non-zero status, that worker has written no
\* band_power entry, and analyze_signal has not run.
C10_AffinityFailureIsFatal ==
  \A w \in Workers :
    wpc[w] = "exit_called" =>
      /\ proc # "running"
      /\ exit_status # 0
      /\ \A b \in DOMAIN writers : \A k \in 1..Len(writers[b]) : writers[b][k] # w
      /\ pc \notin {"free", "done"}
      /\ ~Analyzed

\* a worker failed to pin itself after another one had written a band, main
\* waits in the join loop and the process is gone
C10_Witness ==
  \E w \in Workers :
    /\ wpc[w] = "exit_called"
    /\ proc = "terminated"
    /\ pc = "join"
    /\ \E b \in DOMAIN writers : writers[b] # <<>>

\* the positions of the log that hold a call op, and a call op on worker w
Calls(op) == {k \in DOMAIN log : log[k].op = op}
CallsOn(op, w) == {k \in Calls(op) : log[k].arg = w}
Started(w) == \E k \in CallsOn("pthread_create", w) : log[k].rc = 0

\* C11: pthread_create is called at most once per worker id, exactly once
\* for each id of [0, num_threads) by the end of the create loop; pthread_join
\* is called on a worker only if its pthread_create returned 0, and once the
\* join loop is over on exactly those workers, num_started of them.
C11_StartFailureRecord ==
  /\ \A w \in Workers :
       /\ Cardinality(CallsOn("pthread_create", w)) <= 1
       /\ Cardinality(CallsOn("pthread_join", w)) <= 1
       /\ CallsOn("pthread_join", w) # {} => Started(w)
       /\ CallsOn("pthread_create", w) # {} => w \in ThreadIds
  /\ (pc \in {"join", "analyze", "free"} \/ Analyzed) =>
       \A w \in ThreadIds : Cardinality(CallsOn("pthread_create", w)) = 1
  /\ pc = "join" =>
       \A w \in ThreadIds : w < i => (CallsOn("pthread_join", w) # {} <=> Started(w))
  /\ (pc = "analyze" \/ Analyzed) =>
       /\ \A w \in ThreadIds : CallsOn("pthread_join", w) # {} <=> Started(w)
       /\ Cardinality(Calls("pthread_join")) = num_started

\* three workers, the second failed to start: main is past the join loop with
\* two joins made and the failed one skipped
C11_Witness ==
  /\ pc = "analyze"
  /\ num_threads = 3
  /\ tid[1] = DEADBEEF
  /\ CallsOn("pthread_join", 0) # {} /\ CallsOn("pthread_join", 2) # {}
  /\ CallsOn("pthread_join", 1) = {}

\* the loader returned NULL, or the encoding selector is none of T, B, M
LoadFailed ==
  \/ \E k \in Calls("load") : log[k].rc = -1
  \/ /\ pc \notin {"argc", "parse", "load"}
     /\ ConfigAsserts(Fs, filter_order, num_bands)
     /\ sig_type \notin {"T", "B", "M"}

\* C12: when the load fails or the encoding is unknown, main has returned
\* with a non-zero status, and remove_dc was not called, band_power was not
\* allocated and no worker was created.
C12_LoadFailureAborts ==
  LoadFailed =>
    /\ pc = "done"
    /\ proc # "running"
    /\ exit_status # 0
    /\ Calls("remove_dc") = {}
    /\ Calls("malloc_band_power") = {} /\ DOMAIN band_power = {}
    /\ Calls("pthread_create") = {}
    /\ \A w \in Workers : wpc[w] = "none"
    /\ ~Analyzed

\* the loader returned NULL and the process is gone
C12_Witness ==
  /\ \E k \in Calls("load") : log[k].rc = -1
  /\ sig.null
  /\ proc = "terminated"
  /\ exit_status = 255

\* C13: with base = num_bands / num_threads and extra = num_bands %
\* num_threads, worker w gets base + 1 bands if w < extra and base bands
\* otherwise; worker 0 starts at 0, every other worker starts where the one
\* before it ends, and the last one ends at num_bands.
C13_BaseExtraLayout ==
  num_threads >= 1 =>
    LET base == num_bands \div num_threads
        extra == num_bands % num_threads
        size(w) == IF w < extra THEN base + 1 ELSE base
    IN /\ \A w \in ThreadIds : SizeOf(PartitionRange(w)) = size(w)
       /\ PartitionRange(0).start_i = 0
       /\ \A w \in ThreadIds \ {0} :
            PartitionRange(w).start_i = PartitionRange(w - 1).end_i
       /\ PartitionRange(num_threads - 1).end_i = num_bands
       /\ \A w \in Ranged :
            /\ end_i[w] - start_i[w] = size(w)
            /\ w = 0 => start_i[w] = 0
            /\ (w > 0 /\ (w - 1) \in Ranged) => start_i[w] = end_i[w - 1]
            /\ w = num_threads - 1 => end_i[w] = num_bands

\* three bands over two workers, both done: two bands, then one
C13_Witness ==
  /\ num_bands = 3 /\ num_threads = 2
  /\ wpc[0] = "terminated" /\ wpc[1] = "terminated"
  /\ end_i[0] - start_i[0] = 2 /\ end_i[1] - start_i[1] = 1
  /\ start_i[1] = end_i[0]

\* the number of band_power entries worker w has written (one kernel call
\* per write of its loop)
WritesBy(w) ==
  Cardinality({b \in DOMAIN writers : \E k \in 1..Len(writers[b]) : writers[b][k] = w})

\* C14: with more workers than bands, a worker with id >= num_bands has an
\* empty range and writes nothing, a worker below num_bands has the one band
\* of its own id, and at the analysis every started worker, the idle ones
\* included, has terminated and been joined.
C14_ExcessWorkersIdle ==
  (num_bands >= 1 /\ num_threads > num_bands) =>
    /\ \A w \in Ranged :
         /\ w >= num_bands => start_i[w] = end_i[w] /\ WritesBy(w) = 0
         /\ w < num_bands => start_i[w] = w /\ end_i[w] = w + 1
         /\ (w < num_bands /\ wpc[w] = "terminated") =>
              WritesBy(w) = 1 /\ writers[w] = <<w>>
    /\ (pc = "analyze" \/ Analyzed) =>
         \A w \in ThreadIds :
           Started(w) => wpc[w] = "terminated" /\ CallsOn("pthread_join", w) # {}

\* three workers over two bands, all started: the third wrote nothing, has
\* terminated and was joined, the first two wrote their band
C14_Witness ==
  /\ Analyzed
  /\ num_bands = 2 /\ num_threads = 3 /\ num_started = 3
  /\ wpc[2] = "terminated" /\ WritesBy(2) = 0 /\ CallsOn("pthread_join", 2) # {}
  /\ writers[0] = <<0>> /\ writers[1] = <<1>>

\* the samples as the loader returned them
LoadedSamples == log[CHOOSE k \in Calls("load") : TRUE].arg
Representable(v) == Rnd(v, 1) = v

\* C19 (as claimed): remove_dc applied to the samples remove_dc has produced
\* leaves every one of them as it is.
C19_Idempotent ==
  pc = "alloc" => remove_dc(sig).data = sig.data

\* no sum, quotient or difference of the first pass over x is rounded, nor any
\* partial sum of a second pass
ExactPasses(x, num) ==
  LET mean == SumTo(x, num) \div num
      once == [k \in 0..(num - 1) |-> x[k] - mean]
  IN /\ \A n \in 1..num : Representable(SumTo(x, n))
     /\ SumTo(x, num) % num = 0
     /\ \A k \in 0..(num - 1) : Representable(x[k] - mean)
     /\ \A n \in 1..num : Representable(SumTo(once, n))

\* C19 (amended): when no step of the passes is rounded, remove_dc applied to
\* the samples remove_dc has produced leaves every one of them as it is.
C19_IdempotentWhenExact ==
  (pc = "alloc" /\ ExactPasses(LoadedSamples, sig.num_samples)) =>
    remove_dc(sig).data = sig.data

\* the samples 1, 3 became -1, 1, and a second pass keeps them
C19_Witness ==
  /\ pc = "alloc"
  /\ sig.num_samples = 2
  /\ LoadedSamples[0] = 1 /\ LoadedSamples[1] = 3
  /\ ExactPasses(LoadedSamples, 2)
  /\ sig.data[0] = -1 /\ sig.data[1] = 1
  /\ remove_dc(sig).data = sig.data

\* a step of a started worker
WorkerStep ==
  \E w \in Workers : wpc[w] # "none" /\ (wpc'[w] # wpc[w] \/ band'[w] # band[w])

\* C15: remove_dc has returned before the first pthread_create; from then on
\* the samples stay as they are until free_signal at the end of the run; a
\* worker's step changes nothing that is shared but entries of band_power;
\* analyze_signal changes neither the signal nor band_power.
C15_SignalReadOnly ==
  /\ [](Calls("pthread_create") # {} =>
          \E r \in Calls("remove_dc") : \A c \in Calls("pthread_create") : r < c)
  /\ [][(Calls("pthread_create") # {} /\ pc' # "done") => sig' = sig]_vars
  /\ [][WorkerStep =>
          /\ UNCHANGED <<sig, Fc, bandwidth, mainInputs, num_threads, num_proc, tid>>
          /\ DOMAIN band_power' = DOMAIN band_power]_vars
  /\ [][(pc = "analyze" /\ pc' = "free") =>
          UNCHANGED <<sig, band_power>>]_vars

\* a run whose DC removal changed the samples, whose worker wrote a band and
\* whose analysis has returned, the samples still as remove_dc left them
C15_Witness ==
  /\ pc = "free"
  /\ num_started >= 1
  /\ \E b \in Bands : writers[b] # <<>>
  /\ sig.data # LoadedSamples
  /\ sig.data = remove_dc(Loaded(<<1, 3>>)).data

\* C16: band_power is allocated once, after Fc and bandwidth are assigned and
\* before any pthread_create, and a run that ends normally has freed it after
\* analyze_signal returned.
C16_TableLifecycle ==
  /\ Cardinality(Calls("malloc_band_power")) <= 1
  /\ \A m \in Calls("malloc_band_power") :
       /\ \E c \in Calls("constants") : c < m
       /\ \A p \in Calls("pthread_create") : m < p
  /\ (pc = "done" /\ exit_status = 0) =>
       \E f \in Calls("free_band_power") : \E a \in Calls("analyze_signal") : a < f

\* C17: when every band power read is 0, analyze_signal flags no band and
\* returns 0 (the run reports no anomaly), for every num_bands >= 1.
C17_ZeroTableNoAnomaly ==
  (Analyzed /\ \A b \in Bands : TableRead[b] = 0) =>
    /\ Flagged = {}
    /\ wow = 0
    /\ log[Len(log)].op = "analyze_signal" => log[Len(log)].rc = 0

\* an all-zero table of several bands, one of them a band of interest, analysed
\* with no band flagged
C17_Witness ==
  /\ Analyzed
  /\ num_bands >= 2
  /\ \A b \in Bands : TableRead[b] = 0
  /\ \E b \in Bands : BandOfInterest(BandLow(b), BandHigh(b))
  /\ Flagged = {}
  /\ wow = 0

\* every pthread_create so far returned 0
AllCreatesOk == \A c \in Calls("pthread_create") : log[c].rc = 0
\* sched_setaffinity has returned 0 in worker w
AffinityOk(w) == wpc[w] \in {"loop", "terminated"}

\* C18: under fair scheduling the process ends, and a run in which every
\* pthread_create and every started worker's sched_setaffinity succeeded has
\* ended past the join loop, with every started worker terminated,
\* analyze_signal called exactly once and exit status 0.  Conversely
\* analyze_signal runs only once every started worker has terminated.
C18_Termination ==
  /\ <>(proc = "terminated")
  /\ []((/\ proc = "terminated"
         /\ Calls("malloc_tid") # {}
         /\ AllCreatesOk
         /\ \A w \in Workers : Started(w) => AffinityOk(w))
        => /\ pc = "done"
           /\ exit_status = 0
           /\ Cardinality(Calls("analyze_signal")) = 1
           /\ \A w \in Workers : Started(w) => wpc[w] = "terminated")
  /\ [](Calls("analyze_signal") # {} =>
          \A w \in Workers : Started(w) => wpc[w] = "terminated")

\* a run of two started workers, both done, ended normally after one analysis
C18_Witness ==
  /\ proc = "terminated"
  /\ pc = "done"
  /\ exit_status = 0
  /\ num_started >= 2
  /\ AllCreatesOk
  /\ \A w \in Workers : Started(w) => wpc[w] = "terminated"
  /\ \E b \in Bands : writers[b] # <<>>
  /\ Cardinality(Calls("analyze_signal")) = 1

====
